---- MODULE Spec2Model ----
(***************************************************************************)
(* Model of the object-metadata service: the tag and metadata services     *)
(* (app/src/services/tag.js, app/src/services/metadata.js) over their      *)
(* attribute and join tables, and the authorization middleware             *)
(* (app/src/middleware/authorization.js).                                  *)
(*                                                                         *)
(* The tag service and the metadata service read and write disjoint        *)
(* tables, so a run exercises one of the two (svc); every run of the       *)
(* program projects onto one run of each service.                          *)
(***************************************************************************)
EXTENDS Bags, FiniteSets, Integers, Sequences, TLC

\* Longest list of tags / metadata / matchers a call is given.
MaxLen == 2

Keys == {"a", "b"}
Pairs == {[key |-> "a", value |-> "1"], [key |-> "a", value |-> "2"],
          [key |-> "b", value |-> "1"]}
Versions == {"v1", "v2"}

\* const { NIL: SYSTEM_USER } = require('uuid')
SYSTEM_USER == "00000000-0000-0000-0000-000000000000"

\* The value of a JavaScript expression that found nothing.
Undefined == [undefined |-> TRUE]

\* The arrays a caller can pass: tags or metadata ({key, value} objects, a
\* pair may repeat), and the matchers of dissociateTags (value may be '').
Lists == UNION {[1..n -> Pairs] : n \in 0..MaxLen}
Matchers == Pairs \cup {[key |-> k, value |-> ""] : k \in Keys}
MatcherLists == UNION {[1..n -> Matchers] : n \in 1..MaxLen}

VARIABLES
  svc,              \* which service this run exercises: "tag" or "metadata"
  tag,              \* table tag: set of [id, key, value]
  versionTag,       \* table version_tag: bag of [versionId, tagId, createdBy]
  metadata,         \* table metadata: set of [id, key, value]
  versionMetadata,  \* table version_metadata: bag of [versionId, metadataId, createdBy]
  last,             \* the last service call and what it did
  config,           \* the keys the configuration has
  req,              \* the request: what the middleware reads and attaches
  env,              \* what the collaborators answer while the request is served
  mw,               \* the middleware chain: where it is, what the last one did
  pruning,          \* a prune that runs beside other transactions: where it is
  trxs              \* the transactions that run at once, each with its position

storeVars == <<svc, tag, versionTag, metadata, versionMetadata, last>>
authVars == <<config, req, env, mw>>
vars == <<svc, tag, versionTag, metadata, versionMetadata, last, config, req, env, mw,
          pruning, trxs>>

----------------------------------------------------------------------------
(* Helpers *)

Range(s) == {s[i] : i \in DOMAIN s}

NoRepeat(s) == \A i, j \in DOMAIN s : i # j => s[i] # s[j]

KV(r) == [key |-> r.key, value |-> r.value]

RECURSIVE SumOver(_, _)
SumOver(B, S) ==
  IF S = {} THEN 0
  ELSE LET x == CHOOSE y \in S : TRUE IN B[x] + SumOver(B, S \ {x})

\* The rows of a table as the array a select resolves to.
RECURSIVE RowsById(_)
RowsById(S) ==
  IF S = {} THEN <<>>
  ELSE LET m == CHOOSE r \in S : \A q \in S : r.id <= q.id
       IN <<m>> \o RowsById(S \ {m})

\* array.filter: the elements of s that are in keep, in order.
RECURSIVE Filter(_, _)
Filter(s, keep) ==
  IF s = <<>> THEN <<>>
  ELSE (IF Head(s) \in keep THEN <<Head(s)>> ELSE <<>>) \o Filter(Tail(s), keep)

\* The rows S of the table B are deleted.
DeleteRows(B, S) == [r \in DOMAIN B \ S |-> B[r]]

RECURSIVE SeqToBag(_)
SeqToBag(s) ==
  IF s = <<>> THEN EmptyBag ELSE SetToBag({Head(s)}) (+) SeqToBag(Tail(s))

\* array.find(obj => obj.key === key && obj.value === value)
getObjectsByKeyValue(array, key, value) ==
  LET hits == {i \in DOMAIN array : array[i].key = key /\ array[i].value = value}
  IN IF hits = {} THEN Undefined
     ELSE array[CHOOSE i \in hits : \A j \in hits : i <= j]

----------------------------------------------------------------------------
(* The relational store.  The schema (migrations) is not part of the      *)
(* services; its constraints are those of the data model: (key, value) is *)
(* unique within an attribute table, (versionId, attributeId) identifies  *)
(* a join row, a join row references an existing attribute record, and    *)
(* deleting an attribute record cascades to its join rows.                *)

\* The surrogate key the table gives its next row.
NextId(used) == CHOOSE i \in 1..(Cardinality(used) + 1) :
                  i \notin used /\ \A j \in 1..(i - 1) : j \in used

\* A table without the unique constraint takes any rows.
UniqueKeyValueUnchecked(table, rows) == TRUE

\* unique (key, value): may `rows` be inserted into `table`?
UniqueKeyValue(table, rows) ==
  /\ NoRepeat(rows)
  /\ \A i \in DOMAIN rows : \A r \in table : KV(r) # rows[i]

\* A join table without the primary key takes any rows.
PrimaryKeyJoinUnchecked(joins, rows) == TRUE

\* primary key (versionId, attributeId): may the join rows be inserted?
PrimaryKeyJoin(joins, rows) ==
  /\ NoRepeat(rows)
  /\ \A i \in DOMAIN rows : ~BagIn(rows[i], joins)

\* foreign key attributeId -> attribute.id
ForeignKeyJoin(ids, attrIds) == \A i \in DOMAIN attrIds : attrIds[i] \in ids

\* insert(rows).returning('*'): the records the insert resolves to.
RECURSIVE Returning(_, _)
Returning(table, rows) ==
  IF rows = <<>> THEN <<>>
  ELSE LET r == [id |-> NextId({x.id : x \in table}),
                 key |-> Head(rows).key, value |-> Head(rows).value]
       IN <<r>> \o Returning(table \cup {r}, Tail(rows))

----------------------------------------------------------------------------
(* A call in progress: the tables as its transaction sees them, whether   *)
(* it is still running normally (ok), the value it resolves to (ret) and  *)
(* what it has done so far.                                               *)

Begin(attr, join) ==
  [attr |-> attr, join |-> join, ok |-> TRUE, ret |-> <<>>,
   count |-> 0,        \* rows the un-awaited deletes have deleted
   threw |-> "none",   \* the awaited query that threw
   rejected |-> 0,     \* un-awaited queries that rejected
   late |-> 0,         \* un-awaited queries that ran after the orphan scan
   ins |-> 0, del |-> 0,       \* rows inserted / deleted
   commits |-> 0, rollbacks |-> 0,
   etrx |-> FALSE]     \* the caller supplied the transaction

\* The call enters: with etrx it works in the transaction of its caller.
Enter(attr, join, etrx) == [Begin(attr, join) EXCEPT !.etrx = etrx]

Throw(c, label) == [c EXCEPT !.ok = FALSE, !.threw = label]

\* catch (err) { if (!etrx && trx) await trx.rollback(); throw err; }
Rollback(c0, c) ==
  [c EXCEPT !.attr = c0.attr, !.join = c0.join, !.ok = FALSE, !.ret = <<>>,
            !.rollbacks = @ + 1]

\* if (!etrx) await trx.commit(); return Promise.resolve(response);
\* and the catch block, for a call that entered with c0.
Finish(c0, c, etrx, fail) ==
  IF etrx THEN c
  ELSE IF ~c.ok THEN Rollback(c0, c)
  ELSE IF fail = "commit" THEN Rollback(c0, Throw(c, "commit"))
  ELSE [c EXCEPT !.commits = @ + 1]

----------------------------------------------------------------------------
(* The tag service, app/src/services/tag.js.  Every function takes the     *)
(* call in progress c, whether the caller supplied a transaction (etrx)    *)
(* and the awaited query that fails in this call, if any (fail).           *)

\* When a query that the code does not await runs.  dissociateTags issues
\* its deletes inside tags.forEach(async ...) and goes on without waiting:
\* a delete runs before the orphan scan ("pre"), after the prune and before
\* the transaction completes ("post"), or is still pending when the
\* transaction completes and rejects ("never").
Timing == {"pre", "post", "never"}

\* The awaited queries the datastore can fail, and the constraints of the
\* schema an insert can violate: what a call that throws has thrown.
Failures == {"none", "current", "pruneScan", "pruneDelete", "createSelect",
             "createInsert", "assocSelect", "dissocDelete", "assocInsert", "commit"}
Violations == {"unique", "primaryKey", "foreignKey"}

\* A scan that selects the tag rows some version has no version_tag row for.
OrphanedTagIdsOfSomeVersion(attr, join) ==
  {t.id : t \in {x \in attr : \E v \in Versions :
                   \A j \in DOMAIN join : ~(j.tagId = x.id /\ j.versionId = v)}}

\* The ids the orphan scan selects: tag rows with no version_tag row.
OrphanedTagIds(attr, join) ==
  {t.id : t \in {x \in attr : \A j \in DOMAIN join : j.tagId # x.id}}

\* Tag.query(trx).delete().whereIn('id', ids); version_tag rows cascade.
DeleteTags(c, deletedTagIds, response) ==
  [c EXCEPT !.attr = {t \in @ : t.id \notin deletedTagIds},
            !.join = DeleteRows(@, {j \in DOMAIN @ : j.tagId \in deletedTagIds}),
            !.del = @ + response,
            !.ret = response]

PruneTags(c, deletedTagIds, fail) ==
  IF fail = "pruneScan" THEN Throw(c, "pruneScan")
  ELSE IF fail = "pruneDelete" THEN Throw(c, "pruneDelete")
  ELSE DeleteTags(c, deletedTagIds, Cardinality({t \in c.attr : t.id \in deletedTagIds}))

pruneOrphanedTags(c, etrx, fail) ==
  Finish(c, PruneTags(c, OrphanedTagIds(c.attr, c.join), fail), etrx, fail)

\* A forEach that pushes nothing for a tag it finds in allTags.
ExistingTagsDropped(allTags, tags) == <<>>

\* The forEach of createTags: the incoming tags found in allTags, with
\* the id of the row found.
ExistingTags(allTags, tags) ==
  LET hit == Filter(tags, {t \in Range(tags) :
                      getObjectsByKeyValue(allTags, t.key, t.value) # Undefined})
  IN [i \in DOMAIN hit |->
        [id |-> getObjectsByKeyValue(allTags, hit[i].key, hit[i].value).id,
         key |-> hit[i].key, value |-> hit[i].value]]

\* ... and those not found.
NewTags(allTags, tags) ==
  Filter(tags, {t \in Range(tags) :
                  getObjectsByKeyValue(allTags, t.key, t.value) = Undefined})

InsertTags(c, existingTags, newTags, newTagset, fail) ==
  IF fail = "createSelect" THEN Throw(c, "createSelect")
  ELSE IF Len(newTags) = 0 THEN [c EXCEPT !.ret = existingTags]
  ELSE IF fail = "createInsert" THEN Throw(c, "createInsert")
  ELSE IF ~UniqueKeyValue(c.attr, newTags) THEN Throw(c, "unique")
  ELSE [c EXCEPT !.attr = @ \cup Range(newTagset),
                 !.ins = @ + Len(newTagset),
                 !.ret = existingTags \o newTagset]

createTags(c, tags, etrx, fail) ==
  Finish(c, InsertTags(c, ExistingTags(RowsById(c.attr), tags),
                       NewTags(RowsById(c.attr), tags),
                       Returning(c.attr, NewTags(RowsById(c.attr), tags)), fail),
         etrx, fail)

\* newJoins of associateTags as the rows to insert: the tags of dbTags
\* that no version_tag row of versionId refers to.
NewVersionTags(dbTags, associatedTags, versionId, currentUserId) ==
  LET newJoins == Filter(dbTags, {t \in Range(dbTags) :
                                    ~\E j \in associatedTags : j.tagId = t.id})
  IN [i \in DOMAIN newJoins |->
        [versionId |-> versionId, tagId |-> newJoins[i].id, createdBy |-> currentUserId]]

InsertVersionTags(c1, rows, fail) ==
  IF ~c1.ok THEN c1
  ELSE IF fail = "assocSelect" THEN Throw(c1, "assocSelect")
  ELSE IF Len(rows) = 0 THEN c1
  ELSE IF fail = "assocInsert" THEN Throw(c1, "assocInsert")
  ELSE IF ~PrimaryKeyJoin(c1.join, rows) THEN Throw(c1, "primaryKey")
  ELSE IF ~ForeignKeyJoin({t.id : t \in c1.attr}, [i \in DOMAIN rows |-> rows[i].tagId])
       THEN Throw(c1, "foreignKey")
  ELSE [c1 EXCEPT !.join = @ (+) SeqToBag(rows), !.ins = @ + Len(rows)]

\* Lines 68-89 without the filterVersionId of line 72: the tags joined to
\* any version count as associated.
JoinTagsOfAnyVersion(c1, versionId, currentUserId, fail) ==
  InsertVersionTags(c1,
    NewVersionTags(c1.ret, DOMAIN c1.join, versionId, currentUserId),
    fail)

\* Lines 68-89, given the call c1 after createTags: response = dbTags.
JoinTags(c1, versionId, currentUserId, fail) ==
  InsertVersionTags(c1,
    NewVersionTags(c1.ret, {j \in DOMAIN c1.join : j.versionId = versionId},
                   versionId, currentUserId),
    fail)

associateTags(c, versionId, tags, currentUserId, etrx, fail) ==
  Finish(c,
         IF Len(tags) = 0 THEN [c EXCEPT !.ret = <<>>]
         ELSE JoinTags(createTags(c, tags, TRUE, fail), versionId, currentUserId, fail),
         etrx, fail)

\* A where without the filterVersionId of line 127: the version_tag rows
\* of any version whose tag matches.
TagMatchesOfAnyVersion(attr, versionId, t, j) ==
  \E x \in attr : /\ x.id = j.tagId
                  /\ x.key = t.key
                  /\ (t.value # "" => x.value = t.value)

\* The where of one forEach callback: version_tag rows of versionId whose
\* tag matches the key, and the value when the matcher has one.
TagMatches(attr, versionId, t, j) ==
  /\ j.versionId = versionId
  /\ \E x \in attr : /\ x.id = j.tagId
                     /\ x.key = t.key
                     /\ (t.value # "" => x.value = t.value)

\* The delete of one forEach callback; response += count.
DeleteVersionTags(c, matched) ==
  [c EXCEPT !.join = DeleteRows(@, matched),
            !.del = @ + SumOver(c.join, matched),
            !.count = @ + SumOver(c.join, matched)]

\* The callbacks of the indexes in idxs run, in index order.
RECURSIVE RunDeletes(_, _, _, _)
RunDeletes(c, versionId, tags, idxs) ==
  IF idxs = {} THEN c
  ELSE RunDeletes(
         DeleteVersionTags(c, {j \in DOMAIN c.join :
            TagMatches(c.attr, versionId, tags[CHOOSE k \in idxs : \A m \in idxs : k <= m], j)}),
         versionId, tags, idxs \ {CHOOSE k \in idxs : \A m \in idxs : k <= m})

\* The matchers whose delete runs at `when`.
At(tags, timing, when) == {i \in DOMAIN tags : timing[i] = when}

\* The un-awaited deletes that have not run when the prune is over, and
\* the response dissociateTags resolves to.
AfterPrune(c2, versionId, tags, timing) ==
  IF ~c2.ok THEN c2
  ELSE [RunDeletes(c2, versionId, tags, At(tags, timing, "post"))
          EXCEPT !.late = @ + Cardinality(At(tags, timing, "post")),
                 !.rejected = @ + Cardinality(At(tags, timing, "never"))]

\* return Promise.resolve(response): what the callbacks have added so far.
Response(c, response) == IF c.ok THEN [c EXCEPT !.ret = response] ELSE c

\* Lines 136-137, given the call c2 after the prune.  A call that owns the
\* transaction awaits the commit, and the deletes that run meanwhile have
\* added their counts when it returns; a call in the transaction of its
\* caller returns at once, before the deletes that have not run yet.
Dissociated(c2, versionId, tags, timing, etrx) ==
  Response(AfterPrune(c2, versionId, tags, timing),
           IF etrx THEN c2.count ELSE AfterPrune(c2, versionId, tags, timing).count)

dissociateTags(c, versionId, tags, timing, etrx, fail) ==
  Finish(c,
         Dissociated(
           pruneOrphanedTags(
             RunDeletes([c EXCEPT !.count = 0], versionId, tags, At(tags, timing, "pre")),
             TRUE, fail),
           versionId, tags, timing, etrx),
         etrx, fail)

\* const current = await Tag.query(trx).joinRelated('versionTag').where('versionId', versionId)
\* and the filter of lines 33-34: the tags of the version that are not incoming.
TagsToDissociate(attr, join, versionId, tags) ==
  LET current == RowsById({t \in attr :
                    \E j \in DOMAIN join : j.versionId = versionId /\ j.tagId = t.id})
  IN Filter(current, {t \in Range(current) :
                        getObjectsByKeyValue(tags, t.key, t.value) = Undefined})

\* if (dissociateTags.length) await service.dissociateTags(versionId, dissociateTags, trx)
DissociateCurrent(c, versionId, dissociate, timing, fail) ==
  IF Len(dissociate) = 0 THEN c
  ELSE dissociateTags(c, versionId, dissociate, timing, TRUE, fail)

\* response = await service.associateTags(versionId, tags, currentUserId, trx)
AssociateIncoming(c1, versionId, tags, currentUserId, fail) ==
  IF ~c1.ok THEN c1
  ELSE associateTags(c1, versionId, tags, currentUserId, TRUE, fail)

replaceTags(c, versionId, tags, currentUserId, timing, etrx, fail) ==
  Finish(c,
         IF Len(tags) = 0 THEN [c EXCEPT !.ret = <<>>]
         ELSE IF fail = "current" THEN Throw(c, "current")
         ELSE AssociateIncoming(
                DissociateCurrent(c, versionId,
                                  TagsToDissociate(c.attr, c.join, versionId, tags),
                                  timing, fail),
                versionId, tags, currentUserId, fail),
         etrx, fail)

----------------------------------------------------------------------------
(* The metadata service, app/src/services/metadata.js. *)

\* The ids the orphan scan selects: metadata rows with no version_metadata row.
OrphanedMetadataIds(attr, join) ==
  {m.id : m \in {x \in attr : \A j \in DOMAIN join : j.metadataId # x.id}}

\* Metadata.query(trx).delete().whereIn('id', ids); version_metadata rows cascade.
DeleteMetadata(c, deletedMetadataIds, response) ==
  [c EXCEPT !.attr = {m \in @ : m.id \notin deletedMetadataIds},
            !.join = DeleteRows(@, {j \in DOMAIN @ : j.metadataId \in deletedMetadataIds}),
            !.del = @ + response,
            !.ret = response]

PruneMetadata(c, deletedMetadataIds, fail) ==
  IF fail = "pruneScan" THEN Throw(c, "pruneScan")
  ELSE IF fail = "pruneDelete" THEN Throw(c, "pruneDelete")
  ELSE DeleteMetadata(c, deletedMetadataIds,
                      Cardinality({m \in c.attr : m.id \in deletedMetadataIds}))

pruneOrphanedMetadata(c, etrx, fail) ==
  Finish(c, PruneMetadata(c, OrphanedMetadataIds(c.attr, c.join), fail), etrx, fail)

ExistingMetadata(allMetadata, metadata_) ==
  LET hit == Filter(metadata_, {m \in Range(metadata_) :
                      getObjectsByKeyValue(allMetadata, m.key, m.value) # Undefined})
  IN [i \in DOMAIN hit |->
        [id |-> getObjectsByKeyValue(allMetadata, hit[i].key, hit[i].value).id,
         key |-> hit[i].key, value |-> hit[i].value]]

NewMetadata(allMetadata, metadata_) ==
  Filter(metadata_, {m \in Range(metadata_) :
                       getObjectsByKeyValue(allMetadata, m.key, m.value) = Undefined})

InsertMetadata(c, existingMetadata, newMetadata, newMetadataRecords, fail) ==
  IF fail = "createSelect" THEN Throw(c, "createSelect")
  ELSE IF Len(newMetadata) = 0 THEN [c EXCEPT !.ret = existingMetadata]
  ELSE IF fail = "createInsert" THEN Throw(c, "createInsert")
  ELSE IF ~UniqueKeyValue(c.attr, newMetadata) THEN Throw(c, "unique")
  ELSE [c EXCEPT !.attr = @ \cup Range(newMetadataRecords),
                 !.ins = @ + Len(newMetadataRecords),
                 !.ret = existingMetadata \o newMetadataRecords]

createMetadata(c, metadata_, etrx, fail) ==
  Finish(c, InsertMetadata(c, ExistingMetadata(RowsById(c.attr), metadata_),
                           NewMetadata(RowsById(c.attr), metadata_),
                           Returning(c.attr, NewMetadata(RowsById(c.attr), metadata_)),
                           fail),
         etrx, fail)

\* Lines 38-43: the version_metadata rows of versionId whose metadata is
\* not in dbMetadata are deleted.
DissociateMetadata(c1, deleted) ==
  [c1 EXCEPT !.join = DeleteRows(@, deleted), !.del = @ + SumOver(c1.join, deleted)]

\* Lines 34-48, given the call c1 after createMetadata.
RemoveExtraneous(c1, dbMetadata, dissociateMetadata, fail) ==
  IF ~c1.ok THEN c1
  ELSE IF fail = "assocSelect" THEN Throw(c1, "assocSelect")
  ELSE IF dissociateMetadata = {} THEN c1
  ELSE IF fail = "dissocDelete" THEN Throw(c1, "dissocDelete")
  ELSE [pruneOrphanedMetadata(DissociateMetadata(c1, dissociateMetadata), TRUE, fail)
          EXCEPT !.ret = dbMetadata]

\* newJoins of associateMetadata as the rows to insert.
NewVersionMetadata(dbMetadata, associatedMetadata, versionId, currentUserId) ==
  LET newJoins == IF associatedMetadata # {}
                  THEN Filter(dbMetadata, {m \in Range(dbMetadata) :
                                ~\E j \in associatedMetadata : j.metadataId = m.id})
                  ELSE dbMetadata
  IN [i \in DOMAIN newJoins |->
        [versionId |-> versionId, metadataId |-> newJoins[i].id,
         createdBy |-> currentUserId]]

\* Lines 53-60: response is what the insert of the join rows resolves to.
InsertVersionMetadata(c2, rows, fail) ==
  IF ~c2.ok THEN c2
  ELSE IF Len(rows) = 0 THEN [c2 EXCEPT !.ret = <<>>]
  ELSE IF fail = "assocInsert" THEN Throw(c2, "assocInsert")
  ELSE IF ~PrimaryKeyJoin(c2.join, rows) THEN Throw(c2, "primaryKey")
  ELSE IF ~ForeignKeyJoin({m.id : m \in c2.attr},
                          [i \in DOMAIN rows |-> rows[i].metadataId])
       THEN Throw(c2, "foreignKey")
  ELSE [c2 EXCEPT !.join = @ (+) SeqToBag(rows), !.ins = @ + Len(rows), !.ret = rows]

\* Lines 31-60, given the call c1 after createMetadata and the rows
\* associatedMetadata that the select of lines 34-35 resolves to.
JoinMetadata(c1, associatedMetadata, versionId, currentUserId, fail) ==
  InsertVersionMetadata(
    RemoveExtraneous(c1, c1.ret,
      {j \in associatedMetadata :
         ~\E i \in DOMAIN c1.ret : c1.ret[i].id = j.metadataId},
      fail),
    NewVersionMetadata(c1.ret, associatedMetadata, versionId, currentUserId),
    fail)

VersionMetadataOf(c1, versionId) == {j \in DOMAIN c1.join : j.versionId = versionId}

AssociateCreated(c1, versionId, currentUserId, fail) ==
  JoinMetadata(c1, VersionMetadataOf(c1, versionId), versionId, currentUserId, fail)

associateMetadata(c, versionId, metadata_, currentUserId, etrx, fail) ==
  Finish(c,
         IF Len(metadata_) = 0 THEN [c EXCEPT !.ret = <<>>]
         ELSE AssociateCreated(createMetadata(c, metadata_, TRUE, fail),
                               versionId, currentUserId, fail),
         etrx, fail)

----------------------------------------------------------------------------
(* The service calls a business-logic caller makes, each in a transaction *)
(* of its own (etrx undefined).                                           *)

NoCall ==
  [op |-> "none", versionId |-> "-", arg |-> <<>>, ok |-> TRUE, threw |-> "none",
   rejected |-> 0, late |-> 0, ins |-> 0, del |-> 0, commits |-> 0, rollbacks |-> 0,
   again |-> FALSE, etrx |-> FALSE, ret |-> <<>>, count |-> 0]

\* The calls that resolve to a number of rows; the others resolve to an array.
CountingCalls == {"dissociateTags", "pruneOrphanedTags", "pruneOrphanedMetadata"}

\* What the caller learns of a call: of one that resolved, its arguments,
\* what it did and what it resolved to (the array ret or the number count);
\* of one that threw, the query that failed and what became of the
\* transaction.
Called(op, versionId, arg, c) ==
  IF c.ok
  THEN [op |-> op, versionId |-> versionId, arg |-> arg, ok |-> TRUE, threw |-> "none",
        rejected |-> c.rejected, late |-> c.late, ins |-> c.ins, del |-> c.del,
        commits |-> c.commits, rollbacks |-> c.rollbacks,
        again |-> last.op = op /\ last.versionId = versionId /\ last.arg = arg /\ last.ok,
        etrx |-> c.etrx,
        ret |-> IF op \in CountingCalls THEN <<>> ELSE c.ret,
        count |-> IF op \in CountingCalls THEN c.ret ELSE 0]
  ELSE [op |-> op, versionId |-> "-", arg |-> <<>>, ok |-> FALSE, threw |-> c.threw,
        rejected |-> 0, late |-> 0, ins |-> 0, del |-> 0,
        commits |-> c.commits, rollbacks |-> c.rollbacks, again |-> FALSE,
        etrx |-> c.etrx, ret |-> <<>>, count |-> 0]

\* The runs of the un-awaited deletes of n matchers, with the awaited
\* failure: a call that an awaited query fails is rolled back whatever the
\* un-awaited deletes did.
Schedules(n, fail) ==
  IF fail = "none" THEN [1..n -> Timing] ELSE {[i \in 1..n |-> "pre"]}

\* Calls follow one another: the caller takes the outcome of a call before
\* it makes the next one (Settled), or makes the same call again at once.
MayCall(op, versionId, arg) ==
  \/ last.op = "none"
  \/ last.ok /\ last.op = op /\ last.versionId = versionId /\ last.arg = arg

TagCall(op, versionId, arg, c) ==
  /\ tag' = c.attr
  /\ versionTag' = c.join
  /\ last' = Called(op, versionId, arg, c)
  /\ UNCHANGED <<svc, metadata, versionMetadata>>
  /\ UNCHANGED authVars
  /\ UNCHANGED <<pruning, trxs>>

MetadataCall(op, versionId, arg, c) ==
  /\ metadata' = c.attr
  /\ versionMetadata' = c.join
  /\ last' = Called(op, versionId, arg, c)
  /\ UNCHANGED <<svc, tag, versionTag>>
  /\ UNCHANGED authVars
  /\ UNCHANGED <<pruning, trxs>>

ReplaceTagsWith(etrx) ==
  /\ svc = "tag"
  /\ \E versionId \in Versions, tags \in Lists :
       /\ MayCall("replaceTags", versionId, tags)
       /\ \E fail \in {"none", "current", "pruneScan", "pruneDelete", "createSelect",
                       "createInsert", "assocSelect", "assocInsert", "commit"} :
            \E timing \in Schedules(Len(TagsToDissociate(tag, versionTag, versionId, tags)),
                                     fail) :
              TagCall("replaceTags", versionId, tags,
                      replaceTags(Enter(tag, versionTag, etrx), versionId, tags, SYSTEM_USER,
                                  timing, etrx, fail))

AssociateTagsWith(etrx) ==
  /\ svc = "tag"
  /\ \E versionId \in Versions, tags \in Lists :
       /\ MayCall("associateTags", versionId, tags)
       /\ \E fail \in {"none", "createSelect", "createInsert", "assocSelect",
                       "assocInsert", "commit"} :
            TagCall("associateTags", versionId, tags,
                    associateTags(Enter(tag, versionTag, etrx), versionId, tags, SYSTEM_USER,
                                  etrx, fail))

DissociateTagsWith(etrx) ==
  /\ svc = "tag"
  /\ \E versionId \in Versions, tags \in MatcherLists :
       /\ MayCall("dissociateTags", versionId, tags)
       /\ \E fail \in {"none", "pruneScan", "pruneDelete", "commit"} :
            \E timing \in Schedules(Len(tags), fail) :
              TagCall("dissociateTags", versionId, tags,
                      dissociateTags(Enter(tag, versionTag, etrx), versionId, tags, timing,
                                     etrx, fail))

PruneOrphanedTagsWith(etrx) ==
  /\ svc = "tag"
  /\ MayCall("pruneOrphanedTags", "-", <<>>)
  /\ \E fail \in {"none", "pruneScan", "pruneDelete", "commit"} :
       TagCall("pruneOrphanedTags", "-", <<>>,
               pruneOrphanedTags(Enter(tag, versionTag, etrx), etrx, fail))

CreateTagsWith(etrx) ==
  /\ svc = "tag"
  /\ \E tags \in Lists :
       /\ MayCall("createTags", "-", tags)
       /\ \E fail \in {"none", "createSelect", "createInsert", "commit"} :
            TagCall("createTags", "-", tags,
                    createTags(Enter(tag, versionTag, etrx), tags, etrx, fail))

AssociateMetadataWith(etrx) ==
  /\ svc = "metadata"
  /\ \E versionId \in Versions, metadata_ \in Lists :
       /\ MayCall("associateMetadata", versionId, metadata_)
       /\ \E fail \in {"none", "createSelect", "createInsert", "assocSelect",
                       "dissocDelete", "pruneScan", "pruneDelete", "assocInsert",
                       "commit"} :
            MetadataCall("associateMetadata", versionId, metadata_,
                         associateMetadata(Enter(metadata, versionMetadata, etrx), versionId,
                                           metadata_, SYSTEM_USER, etrx, fail))

PruneOrphanedMetadataWith(etrx) ==
  /\ svc = "metadata"
  /\ MayCall("pruneOrphanedMetadata", "-", <<>>)
  /\ \E fail \in {"none", "pruneScan", "pruneDelete", "commit"} :
       MetadataCall("pruneOrphanedMetadata", "-", <<>>,
                    pruneOrphanedMetadata(Enter(metadata, versionMetadata, etrx), etrx, fail))

CreateMetadataWith(etrx) ==
  /\ svc = "metadata"
  /\ \E metadata_ \in Lists :
       /\ MayCall("createMetadata", "-", metadata_)
       /\ \E fail \in {"none", "createSelect", "createInsert", "commit"} :
            MetadataCall("createMetadata", "-", metadata_,
                         createMetadata(Enter(metadata, versionMetadata, etrx), metadata_,
                                        etrx, fail))

\* The calls of a caller that supplies no transaction.
ReplaceTags == ReplaceTagsWith(FALSE)
AssociateTags == AssociateTagsWith(FALSE)
DissociateTags == DissociateTagsWith(FALSE)
PruneOrphanedTags == PruneOrphanedTagsWith(FALSE)
CreateTags == CreateTagsWith(FALSE)
AssociateMetadata == AssociateMetadataWith(FALSE)
PruneOrphanedMetadata == PruneOrphanedMetadataWith(FALSE)
CreateMetadata == CreateMetadataWith(FALSE)

\* The calls of a caller that has a transaction open and passes it on.
ReplaceTagsInTransaction == ReplaceTagsWith(TRUE)
AssociateTagsInTransaction == AssociateTagsWith(TRUE)
DissociateTagsInTransaction == DissociateTagsWith(TRUE)
PruneOrphanedTagsInTransaction == PruneOrphanedTagsWith(TRUE)
CreateTagsInTransaction == CreateTagsWith(TRUE)
AssociateMetadataInTransaction == AssociateMetadataWith(TRUE)
PruneOrphanedMetadataInTransaction == PruneOrphanedMetadataWith(TRUE)
CreateMetadataInTransaction == CreateMetadataWith(TRUE)

Settled ==
  /\ last.op # "none"
  /\ last' = NoCall
  /\ UNCHANGED <<svc, tag, versionTag, metadata, versionMetadata>>
  /\ UNCHANGED authVars
  /\ UNCHANGED <<pruning, trxs>>


----------------------------------------------------------------------------
(* The authorization middleware, app/src/middleware/authorization.js.      *)
(* A request passes checkAppMode, then currentObject, then                 *)
(* hasPermission(permission), then reaches its controller.                 *)

\* components/constants: AuthMode, AuthType, Permissions
AuthMode == [NOAUTH |-> "NOAUTH", BASICAUTH |-> "BASICAUTH",
             OIDCAUTH |-> "OIDCAUTH", FULLAUTH |-> "FULLAUTH"]
AuthType == [NONE |-> "NONE", BASIC |-> "BASIC", BEARER |-> "BEARER"]
Permissions == [READ |-> "READ", WRITE |-> "WRITE", DELETE |-> "DELETE",
                MANAGE |-> "MANAGE"]
PermissionCodes == {Permissions[k] : k \in DOMAIN Permissions}

\* JavaScript values, with their type: === compares the type first.
JsBoolean(b) == [type |-> "boolean", value |-> b]
JsString(str) == [type |-> "string", value |-> str]
JsUndefined == [type |-> "undefined", value |-> "undefined"]

Truthy(x) ==
  CASE x.type = "boolean" -> x.value
    [] x.type = "string" -> x.value # ""
    [] x.type = "undefined" -> FALSE
    [] OTHER -> TRUE

\* !x
LogicalNot(x) == JsBoolean(~Truthy(x))

\* a === b
StrictEquals(a, b) == a.type = b.type /\ a.value = b.value

\* obj.name: undefined when obj has no such property.
Property(obj, name) == IF name \in DOMAIN obj THEN obj[name] ELSE JsUndefined

\* The identities the identity collaborator attaches as req.currentUser.
Users ==
  {[type |-> "object", authType |-> JsString(AuthType.NONE)],
   [type |-> "object", authType |-> JsString(AuthType.BASIC)],
   [type |-> "object", authType |-> JsString(AuthType.BEARER)],
   [type |-> "object", authType |-> JsString(AuthType.BEARER),
    tokenPayload |-> [type |-> "object", sub |-> JsString("")]],
   [type |-> "object", authType |-> JsString(AuthType.BEARER),
    tokenPayload |-> [type |-> "object", sub |-> JsString("u1")]]}

\* The object records recordService.read resolves to.
Records == {[type |-> "object", id |-> "o1", public |-> JsBoolean(b)] : b \in BOOLEAN}

NoRequest ==
  [permission |-> JsString(Permissions.READ), currentUser |-> JsUndefined,
   objId |-> JsUndefined, currentObject |-> JsUndefined]

\* A promise of a collaborator that rejects.
Rejected == [type |-> "error", value |-> "rejected"]

NoEnv ==
  [record |-> Rejected, head |-> "ok", grants |-> {}, lookup |-> "ok",
   service |-> Rejected]

\* A request as it enters the chain: the permission its route checks, the
\* identity attached, params.objId.
Requests ==
  [permission : {JsString(c) : c \in PermissionCodes},
   currentUser : Users \cup {JsUndefined},
   objId : {JsString("o1"), JsUndefined},
   currentObject : {JsUndefined}]

\* What the collaborators answer: recordService.read (a record, or it
\* throws), storageService.headObject, recordService.readPermissions (the
\* codes granted to the subject on the object, or it throws), and the
\* function of permissionService the controller calls (a result, or it
\* throws).
Envs ==
  [record : Records \cup {Rejected},
   head : {"ok", "throws"},
   grants : SUBSET PermissionCodes,
   lookup : {"ok", "throws"},
   service : {[type |-> "object", res |-> 123], Rejected}]

\* getAppAuthMode() of components/utils
getAppAuthMode ==
  IF ~config.basicAuth /\ ~config.keycloak THEN AuthMode.NOAUTH
  ELSE IF config.basicAuth /\ ~config.keycloak THEN AuthMode.BASICAUTH
  ELSE IF ~config.basicAuth /\ config.keycloak THEN AuthMode.OIDCAUTH
  ELSE AuthMode.FULLAUTH

\* The chain before any middleware has run, at the middleware `at`.
Entering(at) ==
  [pc |-> at, by |-> "none", nexts |-> 0, passed |-> <<>>, sent |-> <<>>,
   err |-> "none", lookups |-> 0, calls |-> 0]

\* What one middleware did: it called next, or it caught err, logged its
\* message and sent a problem response.  nexts counts its calls of next,
\* passed holds what it passed to next, sent the responses it sent.
CallsNext(by, to, lookups) ==
  [Entering(to) EXCEPT !.by = by, !.nexts = 1, !.lookups = lookups]

\* A middleware that sends the response and goes on to call next.
SendsAndCallsNext(by, response, err, lookups) ==
  [Entering("end") EXCEPT !.by = by, !.nexts = 1, !.sent = <<response>>, !.err = err,
                          !.lookups = lookups]

\* return new Problem(...).send(res)
Sends(by, response, err, lookups) ==
  [Entering("end") EXCEPT !.by = by, !.sent = <<response>>, !.err = err,
                          !.lookups = lookups]

\* A response that carries the message of the error caught.
ForbiddenWithReason(err) == [status |-> 403, detail |-> err]

\* Line 96: new Problem(403, { detail: ... }).send(res)
Forbidden(err) ==
  [status |-> 403, detail |-> "User lacks permission to complete this action"]

\* Lines 29-33: new Problem(501, { detail, authMode, authType }).send(res)
NotImplemented(authMode, authType) ==
  [status |-> 501,
   detail |-> "Current application mode does not support incoming authentication type",
   authMode |-> authMode, authType |-> authType]

\* Enforcement that no configuration turns off.
AlwaysEnforced == TRUE

\* Line 73: config.has('keycloak.enabled')
Enforced == config.keycloak

\* A request whose object record is taken as attached.
ObjectNeverMissing(r) == FALSE

\* Line 74: !req.currentObject
MissingObject(r) == ~Truthy(r.currentObject)

\* Line 80: !req.currentObject.public || !permission === Permissions.READ
PermissionCheckNeeded(currentObject, permission) ==
  \/ Truthy(LogicalNot(Property(currentObject, "public")))
  \/ StrictEquals(LogicalNot(permission), JsString(Permissions.READ))

\* An identity with a token payload counts, whatever its subject.
HasTokenPayload(currentUser) ==
  /\ Truthy(currentUser)
  /\ StrictEquals(Property(currentUser, "authType"), JsString(AuthType.BEARER))
  /\ Truthy(Property(currentUser, "tokenPayload"))

\* Lines 82-83: the request carries a bearer identity with a subject.
HasSubject(currentUser) ==
  /\ Truthy(currentUser)
  /\ StrictEquals(Property(currentUser, "authType"), JsString(AuthType.BEARER))
  /\ Truthy(Property(currentUser, "tokenPayload"))
  /\ Truthy(Property(Property(currentUser, "tokenPayload"), "sub"))

\* The middleware hasPermission(permission) returns, on request r.
hasPermission(permission, r, e) ==
  IF ~Enforced THEN CallsNext("hasPermission", "controller", 0)
  ELSE IF MissingObject(r)
       THEN Sends("hasPermission", Forbidden("Missing object record"),
                  "Missing object record", 0)
  ELSE IF ~PermissionCheckNeeded(r.currentObject, permission)
       THEN CallsNext("hasPermission", "controller", 0)
  ELSE IF ~HasSubject(r.currentUser)
       THEN Sends("hasPermission", Forbidden("Missing user identification"),
                  "Missing user identification", 0)
  ELSE IF e.lookup = "throws"
       THEN Sends("hasPermission", Forbidden("readPermissions rejected"),
                  "readPermissions rejected", 1)
  ELSE IF ~\E p \in e.grants : StrictEquals(JsString(p), permission)
       THEN Sends("hasPermission", Forbidden("User lacks permission"),
                  "User lacks permission", 1)
  ELSE CallsNext("hasPermission", "controller", 1)

\* The auth type an identity carries in the property the other readers of
\* req.currentUser use (line 82).
AuthTypeOfIdentity(r) ==
  IF Truthy(r.currentUser) THEN Property(r.currentUser, "authType") ELSE JsUndefined

\* Line 19: req.currentUser ? req.currentUser.AuthType : undefined
PresentedAuthType(r) ==
  IF Truthy(r.currentUser) THEN Property(r.currentUser, "AuthType") ELSE JsUndefined

\* The middleware checkAppMode.
checkAppMode(r) ==
  IF \/ /\ getAppAuthMode = AuthMode.BASICAUTH
        /\ StrictEquals(PresentedAuthType(r), JsString(AuthType.BEARER))
     \/ /\ getAppAuthMode = AuthMode.OIDCAUTH
        /\ StrictEquals(PresentedAuthType(r), JsString(AuthType.BASIC))
  THEN Sends("checkAppMode", NotImplemented(getAppAuthMode, PresentedAuthType(r)),
             "auth mode does not support auth type", 0)
  ELSE CallsNext("checkAppMode", "currentObject", 0)

\* A currentObject that attaches the record whatever the head lookup does.
currentObjectWithoutHead(r, e) ==
  IF Truthy(r.objId) /\ e.record.type # "error"
  THEN e.record
  ELSE r.currentObject

\* The middleware currentObject: req.currentObject after it.
currentObject(r, e) ==
  IF Truthy(r.objId) /\ e.record.type # "error" /\ e.head # "throws"
  THEN e.record
  ELSE r.currentObject

CheckAppMode ==
  /\ mw.pc = "checkAppMode"
  /\ mw' = checkAppMode(req)
  /\ UNCHANGED <<config, req, env>>
  /\ UNCHANGED storeVars
  /\ UNCHANGED <<pruning, trxs>>

CurrentObject ==
  /\ mw.pc = "currentObject"
  /\ req' = [req EXCEPT !.currentObject = currentObject(req, env)]
  /\ mw' = CallsNext("currentObject", "hasPermission", 0)
  /\ UNCHANGED <<config, env>>
  /\ UNCHANGED storeVars
  /\ UNCHANGED <<pruning, trxs>>

HasPermission ==
  /\ mw.pc = "hasPermission"
  /\ mw' = hasPermission(req.permission, req, env)
  /\ UNCHANGED <<config, req, env>>
  /\ UNCHANGED storeVars
  /\ UNCHANGED <<pruning, trxs>>

\* The operations of the permission controller (controllers/permission),
\* as its tests describe them.
PermissionOperations ==
  {"searchPermissions", "listPermissions", "addPermissions", "removePermissions"}

\* A controller that answers every operation with 200.
AlwaysOk(op) == 200

\* expect(res.status).toHaveBeenCalledWith(...)
SuccessStatus(op) == IF op = "addPermissions" THEN 201 ELSE 200

\* One operation of the controller: it calls its function of
\* permissionService once, answers with the result, or passes a problem
\* to next when the function throws.
controller(op, e) ==
  IF e.service.type = "error"
  THEN [Entering("end") EXCEPT
          !.by = op, !.calls = 1, !.nexts = 1,
          !.passed = <<[status |-> 502, title |-> "Unknown PermissionService Error"]>>]
  ELSE [Entering("end") EXCEPT
          !.by = op, !.calls = 1,
          !.sent = <<[status |-> SuccessStatus(op), body |-> e.service]>>]

Controller ==
  /\ mw.pc = "controller"
  /\ \E op \in PermissionOperations : mw' = controller(op, env)
  /\ UNCHANGED <<config, req, env>>
  /\ UNCHANGED storeVars
  /\ UNCHANGED <<pruning, trxs>>

----------------------------------------------------------------------------
(* A prune beside other transactions.  pruneOrphanedTags and               *)
(* pruneOrphanedMetadata issue two statements in a transaction that sets   *)
(* no isolation level: each statement reads what is committed when it      *)
(* runs, and other transactions commit between the two.                    *)

NotPruning == [pc |-> "idle", ids |-> {}]

\* const deletedTagIds = await Tag.query(trx)...whereNull('versionTag.tagId')
ScanOrphans ==
  /\ pruning.pc = "idle"
  /\ pruning' = [pc |-> "scanned",
                 ids |-> IF svc = "tag" THEN OrphanedTagIds(tag, versionTag)
                         ELSE OrphanedMetadataIds(metadata, versionMetadata)]
  /\ UNCHANGED storeVars
  /\ UNCHANGED authVars
  /\ UNCHANGED trxs

\* await Tag.query(trx).delete().whereIn('id', ids); await trx.commit()
DeleteScanned ==
  /\ pruning.pc = "scanned"
  /\ pruning' = NotPruning
  /\ IF svc = "tag"
     THEN /\ tag' = DeleteTags(Begin(tag, versionTag), pruning.ids, 0).attr
          /\ versionTag' = DeleteTags(Begin(tag, versionTag), pruning.ids, 0).join
          /\ UNCHANGED <<metadata, versionMetadata>>
     ELSE /\ metadata' = DeleteMetadata(Begin(metadata, versionMetadata), pruning.ids, 0).attr
          /\ versionMetadata' =
               DeleteMetadata(Begin(metadata, versionMetadata), pruning.ids, 0).join
          /\ UNCHANGED <<tag, versionTag>>
  /\ UNCHANGED <<svc, last>>
  /\ UNCHANGED authVars
  /\ UNCHANGED trxs

\* The prune and the transactions that create and associate records.
NextPruning ==
  \/ ScanOrphans
  \/ DeleteScanned
  \/ CreateTags
  \/ AssociateTags
  \/ CreateMetadata
  \/ AssociateMetadata
  \/ Settled

----------------------------------------------------------------------------
(* Two transactions on the tag tables at once.  replaceTags and            *)
(* associateTags start their transaction with Tag.startTransaction() and   *)
(* set no isolation level: every statement reads what is committed when    *)
(* it runs and what its own transaction has written.  A statement that     *)
(* writes a row, or a key of a unique index, that another open transaction *)
(* has written waits until that transaction has ended.                     *)

Trxs == {1, 2}

\* A transaction: where it is, the arguments of its call, the values its
\* statements have resolved to, and the rows it has inserted and deleted
\* and not yet committed.
NoTrx ==
  [pc |-> "idle", op |-> "none", versionId |-> "-", tags |-> <<>>,
   absent |-> {},          \* the incoming pairs not committed when it began
   overlapped |-> FALSE,   \* another transaction was open while it was
   dissociate |-> <<>>, late |-> 0, rejected |-> 0,
   existingTags |-> <<>>, newTags |-> <<>>, dbTags |-> <<>>, rows |-> <<>>,
   insTag |-> {}, delTag |-> {}, insJoin |-> {}, delJoin |-> {}]

Open(u) == trxs[u].pc \notin {"idle", "committed", "failed"}

\* The tables as the statements of transaction t see them.
View(t) ==
  Begin({x \in tag : x.id \notin trxs[t].delTag} \cup trxs[t].insTag,
        DeleteRows(versionTag,
                   trxs[t].delJoin \cup
                     {j \in DOMAIN versionTag : j.tagId \in trxs[t].delTag})
          (+) SetToBag(trxs[t].insJoin))

\* The ids the sequence of the tag table has given out and are still held.
HeldIds ==
  {x.id : x \in tag}
    \cup UNION {{x.id : x \in trxs[u].insTag} : u \in Trxs}
    \cup UNION {{trxs[u].existingTags[i].id : i \in DOMAIN trxs[u].existingTags} : u \in Trxs}

\* Transaction t is about to insert newTags and rows and to delete the
\* tags delTag and the rows delJoin: it waits while another open
\* transaction holds one of them.
Waits(t, newTags, rows, delTag, delJoin) ==
  \E u \in Trxs \ {t} :
    /\ Open(u)
    /\ \/ ~UniqueKeyValue(trxs[u].insTag, newTags)
       \/ ~PrimaryKeyJoin(SetToBag(trxs[u].insJoin), rows)
       \/ delTag \cap trxs[u].delTag # {}
       \/ delJoin \cap trxs[u].delJoin # {}
       \/ \E j \in trxs[u].insJoin : j.tagId \in delTag
       \/ \E i \in DOMAIN rows : rows[i].tagId \in trxs[u].delTag

\* trx = await Tag.startTransaction(), and the test of `tags.length`.
BeginTrx(t) ==
  /\ svc = "tag"
  /\ trxs[t].pc = "idle"
  /\ \E op \in {"replaceTags", "associateTags"}, versionId \in Versions, tags \in Lists :
       trxs' = [u \in Trxs |->
                  IF u = t
                  THEN [NoTrx EXCEPT
                          !.pc = IF Len(tags) = 0 THEN "commit"
                                 ELSE IF op = "replaceTags" THEN "current"
                                 ELSE "createSelect",
                          !.op = op, !.versionId = versionId, !.tags = tags,
                          !.absent = Range(tags) \ {KV(x) : x \in tag},
                          !.overlapped = \E w \in Trxs \ {t} : Open(w)]
                  ELSE IF Open(u) THEN [trxs[u] EXCEPT !.overlapped = TRUE]
                  ELSE trxs[u]]
  /\ UNCHANGED <<svc, tag, versionTag, metadata, versionMetadata, last>>
  /\ UNCHANGED authVars
  /\ UNCHANGED pruning

Step(t, trx) ==
  /\ trxs' = [trxs EXCEPT ![t] = trx]
  /\ UNCHANGED <<svc, tag, versionTag, metadata, versionMetadata, last>>
  /\ UNCHANGED authVars
  /\ UNCHANGED pruning

\* catch (err) { if (!etrx && trx) await trx.rollback(); throw err; }
RolledBack(trx) ==
  [trx EXCEPT !.pc = "failed", !.insTag = {}, !.delTag = {}, !.insJoin = {}, !.delJoin = {}]

\* replaceTags, lines 28-34.
ReadCurrent(t) ==
  /\ trxs[t].pc = "current"
  /\ Step(t, [trxs[t] EXCEPT
                !.dissociate = TagsToDissociate(View(t).attr, View(t).join,
                                                trxs[t].versionId, trxs[t].tags),
                !.pc = IF Len(TagsToDissociate(View(t).attr, View(t).join,
                                               trxs[t].versionId, trxs[t].tags)) = 0
                       THEN "createSelect" ELSE "dissociate"])

\* The transaction after the dissociateTags call c2 of replaceTags.
Dissociating(trx, c1, c2) ==
  [trx EXCEPT !.pc = "createSelect",
              !.late = c2.late, !.rejected = c2.rejected,
              !.delJoin = @ \cup (DOMAIN c1.join \ DOMAIN c2.join),
              !.delTag = @ \cup ({x.id : x \in c1.attr} \ {x.id : x \in c2.attr})]

\* replaceTags, line 35: await service.dissociateTags(versionId, dissociateTags, trx)
Dissociate(t) ==
  /\ trxs[t].pc = "dissociate"
  /\ \E timing \in Schedules(Len(trxs[t].dissociate), "none") :
       /\ ~Waits(t, <<>>, <<>>,
                 Dissociating(trxs[t], View(t),
                              dissociateTags(View(t), trxs[t].versionId, trxs[t].dissociate,
                                             timing, TRUE, "none")).delTag,
                 Dissociating(trxs[t], View(t),
                              dissociateTags(View(t), trxs[t].versionId, trxs[t].dissociate,
                                             timing, TRUE, "none")).delJoin)
       /\ Step(t, Dissociating(trxs[t], View(t),
                               dissociateTags(View(t), trxs[t].versionId, trxs[t].dissociate,
                                              timing, TRUE, "none")))

\* createTags, lines 189-202.
CreateSelect(t) ==
  /\ trxs[t].pc = "createSelect"
  /\ Step(t, [trxs[t] EXCEPT
                !.existingTags = ExistingTags(RowsById(View(t).attr), trxs[t].tags),
                !.newTags = NewTags(RowsById(View(t).attr), trxs[t].tags),
                !.dbTags = ExistingTags(RowsById(View(t).attr), trxs[t].tags),
                !.pc = IF Len(NewTags(RowsById(View(t).attr), trxs[t].tags)) = 0
                       THEN "assocSelect" ELSE "createInsert"])

\* The transaction after the insert of createTags resolved to newTagset.
Inserting(trx, newTagset) ==
  [trx EXCEPT !.pc = "assocSelect",
              !.insTag = @ \cup Range(newTagset),
              !.dbTags = trx.existingTags \o newTagset]

\* createTags, lines 205-211.
CreateInsert(t) ==
  /\ trxs[t].pc = "createInsert"
  /\ ~Waits(t, trxs[t].newTags, <<>>, {}, {})
  /\ Step(t, IF ~UniqueKeyValue(View(t).attr, trxs[t].newTags)
             THEN RolledBack(trxs[t])
             ELSE Inserting(trxs[t],
                            Returning({[id |-> i] : i \in HeldIds}, trxs[t].newTags)))

\* associateTags, lines 71-80.
AssocSelect(t) ==
  /\ trxs[t].pc = "assocSelect"
  /\ Step(t, [trxs[t] EXCEPT
                !.rows = NewVersionTags(trxs[t].dbTags,
                                        {j \in DOMAIN View(t).join :
                                           j.versionId = trxs[t].versionId},
                                        trxs[t].versionId, SYSTEM_USER),
                !.pc = IF Len(NewVersionTags(trxs[t].dbTags,
                                             {j \in DOMAIN View(t).join :
                                                j.versionId = trxs[t].versionId},
                                             trxs[t].versionId, SYSTEM_USER)) = 0
                       THEN "commit" ELSE "assocInsert"])

\* associateTags, lines 81-88.
AssocInsert(t) ==
  /\ trxs[t].pc = "assocInsert"
  /\ ~Waits(t, <<>>, trxs[t].rows, {}, {})
  /\ Step(t, IF InsertVersionTags(View(t), trxs[t].rows, "none").ok
             THEN [trxs[t] EXCEPT !.pc = "commit", !.insJoin = @ \cup Range(trxs[t].rows)]
             ELSE RolledBack(trxs[t]))

\* if (!etrx) await trx.commit()
Commit(t) ==
  /\ trxs[t].pc = "commit"
  /\ tag' = View(t).attr
  /\ versionTag' = View(t).join
  /\ trxs' = [trxs EXCEPT ![t].pc = "committed"]
  /\ UNCHANGED <<svc, metadata, versionMetadata, last>>
  /\ UNCHANGED authVars
  /\ UNCHANGED pruning

NextConcurrent ==
  \E t \in Trxs :
    \/ BeginTrx(t)
    \/ ReadCurrent(t)
    \/ Dissociate(t)
    \/ CreateSelect(t)
    \/ CreateInsert(t)
    \/ AssocSelect(t)
    \/ AssocInsert(t)
    \/ Commit(t)

Init ==
  /\ svc \in {"tag", "metadata"}
  /\ tag = {}
  /\ versionTag = EmptyBag
  /\ metadata = {}
  /\ versionMetadata = EmptyBag
  /\ last = NoCall
  /\ config = [basicAuth |-> FALSE, keycloak |-> FALSE]
  /\ req = NoRequest
  /\ env = NoEnv
  /\ mw = Entering("end")
  /\ pruning = NotPruning
  /\ trxs = [t \in Trxs |-> NoTrx]

Next ==
  \/ ReplaceTags
  \/ AssociateTags
  \/ DissociateTags
  \/ PruneOrphanedTags
  \/ CreateTags
  \/ AssociateMetadata
  \/ PruneOrphanedMetadata
  \/ CreateMetadata
  \/ Settled

Spec == Init /\ [][Next]_vars

\* The calls made in one transaction of the caller: the tables are the
\* store as that transaction sees it.
NextInTransaction ==
  \/ ReplaceTagsInTransaction
  \/ AssociateTagsInTransaction
  \/ DissociateTagsInTransaction
  \/ PruneOrphanedTagsInTransaction
  \/ CreateTagsInTransaction
  \/ AssociateMetadataInTransaction
  \/ PruneOrphanedMetadataInTransaction
  \/ CreateMetadataInTransaction
  \/ Settled

SpecInTransaction == Init /\ [][NextInTransaction]_vars

SpecPruning == Init /\ [][NextPruning]_vars

\* The store the two transactions find: what one associateTags call has
\* committed to an empty store.
ConcurrentInit ==
  /\ svc = "tag"
  /\ \E tags \in Lists :
       /\ tag = associateTags(Begin({}, EmptyBag), "v1", tags, SYSTEM_USER, FALSE, "none").attr
       /\ versionTag =
            associateTags(Begin({}, EmptyBag), "v1", tags, SYSTEM_USER, FALSE, "none").join
  /\ metadata = {}
  /\ versionMetadata = EmptyBag
  /\ last = NoCall
  /\ config = [basicAuth |-> FALSE, keycloak |-> FALSE]
  /\ req = NoRequest
  /\ env = NoEnv
  /\ mw = Entering("end")
  /\ pruning = NotPruning
  /\ trxs = [t \in Trxs |-> NoTrx]

SpecConcurrent == ConcurrentInit /\ [][NextConcurrent]_vars

AuthInit ==
  /\ svc = "tag"
  /\ tag = {}
  /\ versionTag = EmptyBag
  /\ metadata = {}
  /\ versionMetadata = EmptyBag
  /\ last = NoCall
  /\ config \in [basicAuth : BOOLEAN, keycloak : BOOLEAN]
  /\ req \in Requests
  /\ env \in Envs
  /\ mw = Entering("checkAppMode")
  /\ pruning = NotPruning
  /\ trxs = [t \in Trxs |-> NoTrx]

AuthNext ==
  \/ CheckAppMode
  \/ CurrentObject
  \/ HasPermission
  \/ Controller

SpecAuth == AuthInit /\ [][AuthNext]_vars


----------------------------------------------------------------------------
(* What the properties below observe of the store of the service that runs. *)

AttributeRecords == IF svc = "tag" THEN tag ELSE metadata
AssociationRows == IF svc = "tag" THEN versionTag ELSE versionMetadata
AttributeId(j) == IF svc = "tag" THEN j.tagId ELSE j.metadataId

\* The association rows of version v that point at record r, counted.
RowsTo(v, r) ==
  SumOver(AssociationRows,
          {j \in DOMAIN AssociationRows : j.versionId = v /\ AttributeId(j) = r.id})

\* The (key, value) pairs joined to version v.
PairsOf(v) == {KV(r) : r \in {x \in AttributeRecords : RowsTo(v, x) > 0}}

\* The attribute records no association row points at.
Orphans == {r \in AttributeRecords : \A v \in Versions : RowsTo(v, r) = 0}

\* The identities that are a bearer token with a non-empty subject.
Subjects ==
  {u \in Users : /\ u.authType.value = AuthType.BEARER
                 /\ "tokenPayload" \in DOMAIN u
                 /\ u.tokenPayload.sub.value # ""}

----------------------------------------------------------------------------
(* Properties *)

\* C1: with permission enforcement on and an object record attached,
\* hasPermission(permission) calls next only if the object is public and
\* the permission is READ, or the request carries a bearer identity with a
\* non-empty subject whose grants on the object include the permission.
C1_PublicSkipsOnlyRead ==
  (/\ mw.by = "hasPermission"
   /\ mw.nexts = 1
   /\ config.keycloak
   /\ req.currentObject.type = "object")
  => \/ /\ req.currentObject.public.value
        /\ req.permission.value = Permissions.READ
     \/ /\ req.currentUser \in Subjects
        /\ env.lookup = "ok"
        /\ req.permission.value \in env.grants

\* C2: after replaceTags(v, S) resolves, for a non-empty S of distinct
\* pairs, the pairs joined to v are exactly S.
C2_ReplaceTagsMirrors ==
  (/\ last.op = "replaceTags"
   /\ last.ok
   /\ last.arg # <<>>
   /\ NoRepeat(last.arg))
  => PairsOf(last.versionId) = Range(last.arg)

\* C3: associateMetadata(v, M) is not refused for joining v to a record
\* that does not exist, whatever v was joined to and whatever pairs of M
\* were missing from the store, and after it resolves for a non-empty M of
\* distinct pairs the pairs joined to v are exactly M.
C3_AssociateMetadataMirrors ==
  last.op = "associateMetadata"
  => /\ last.threw # "foreignKey"
     /\ (last.ok /\ last.arg # <<>> /\ NoRepeat(last.arg))
        => PairsOf(last.versionId) = Range(last.arg)

\* C4: after replaceTags(v, []) or associateMetadata(v, []) resolves, v has
\* no association and no record that only v was joined to remains.
C4_EmptySetClears ==
  [][\A v \in Versions :
       (/\ last'.op \in {"replaceTags", "associateMetadata"}
        /\ last'.ok
        /\ last'.arg = <<>>
        /\ last'.versionId = v)
       => /\ PairsOf(v)' = {}
          /\ \A r \in AttributeRecords :
               (RowsTo(v, r) > 0 /\ \A w \in Versions \ {v} : RowsTo(w, r) = 0)
               => r \notin AttributeRecords']_vars

\* C5: a replaceTags or associateMetadata call that resolves takes a store
\* without orphaned records to a store without orphaned records.
C5_NoOrphansAfterReplace ==
  [][(/\ last'.op \in {"replaceTags", "associateMetadata"}
      /\ last'.ok
      /\ Orphans = {})
     => Orphans' = {}]_vars

\* C6: when a query of replaceTags, associateTags, dissociateTags or
\* associateMetadata fails, a join-row delete of dissociateTags included,
\* the call throws, its transaction is rolled back and not committed, and
\* the tables are as before the call.
C6_FailureRollsBack ==
  [][(/\ last'.op \in {"replaceTags", "associateTags", "dissociateTags",
                       "associateMetadata"}
      /\ (last'.threw \in (Failures \ {"none"}) \cup Violations \/ last'.rejected > 0))
     => /\ ~last'.ok
        /\ last'.commits = 0
        /\ last'.rollbacks = 1
        /\ UNCHANGED <<tag, versionTag, metadata, versionMetadata>>]_vars

C8_SharedRecord ==
  [][\A p \in Pairs, v \in Versions, w \in Versions :
       (/\ last'.op \in {"associateTags", "associateMetadata"}
        /\ last'.ok
        /\ last'.versionId = v
        /\ w # v
        /\ p \in Range(last'.arg)
        /\ p \in PairsOf(w))
       => /\ Cardinality({r \in AttributeRecords' : KV(r) = p}) = 1
          /\ \A r \in AttributeRecords' :
               KV(r) = p => RowsTo(v, r)' = 1 /\ RowsTo(w, r)' = 1]_vars

\* A pair of the other version has just been associated: the call
\* inserted one row, the association, and both versions are joined to it.
C8_PairSharedByTwoVersions ==
  /\ last.op \in {"associateTags", "associateMetadata"}
  /\ last.ok
  /\ ~last.again
  /\ Len(last.arg) = 1
  /\ last.ins = 1
  /\ \A v \in Versions : last.arg[1] \in PairsOf(v)

\* C9: a second replaceTags(v, S) or associateMetadata(v, S) right after
\* the first inserts nothing, deletes nothing and leaves the pairs joined
\* to v as they were.
C9_SecondCallChangesNothing ==
  [][(/\ last'.again
      /\ last'.op \in {"replaceTags", "associateMetadata"})
     => /\ last'.ins = 0
        /\ last'.del = 0
        /\ \A v \in Versions : PairsOf(v)' = PairsOf(v)]_vars

\* C10: a prune that resolves removes the records no association row of
\* any version points at, keeps every other record and every row.
C10_PruneRemovesExactlyOrphans ==
  [][(/\ last'.op \in {"pruneOrphanedTags", "pruneOrphanedMetadata"}
      /\ last'.ok)
     => /\ AttributeRecords' = AttributeRecords \ Orphans
        /\ AssociationRows' = AssociationRows]_vars

\* A prune has removed a record while a record that is joined stayed.
C10_PrunedBesideReferenced ==
  /\ last.op \in {"pruneOrphanedTags", "pruneOrphanedMetadata"}
  /\ last.ok
  /\ last.del > 0
  /\ AttributeRecords # {}
  /\ Orphans = {}


\* C11: checkAppMode sends 501 and does not call next exactly when the mode
\* is BASICAUTH and the identity's auth type is BEARER, or the mode is
\* OIDCAUTH and the identity's auth type is BASIC; otherwise it calls next.
C11_RejectsUnsupportedAuthType ==
  mw.by = "checkAppMode"
  => LET unsupported ==
           \/ /\ getAppAuthMode = AuthMode.BASICAUTH
              /\ StrictEquals(AuthTypeOfIdentity(req), JsString(AuthType.BEARER))
           \/ /\ getAppAuthMode = AuthMode.OIDCAUTH
              /\ StrictEquals(AuthTypeOfIdentity(req), JsString(AuthType.BASIC))
     IN IF unsupported
        THEN mw.nexts = 0 /\ Len(mw.sent) = 1 /\ mw.sent[1].status = 501
        ELSE mw.nexts = 1 /\ mw.sent = <<>>

\* C12: with enforcement on and no object record attached, hasPermission
\* sends 403 and does not call next, whatever the permission, the identity
\* and the grants.
C12_NoObjectDenied ==
  (/\ mw.by = "hasPermission"
   /\ config.keycloak
   /\ req.currentObject.type = "undefined")
  => /\ mw.nexts = 0
     /\ Len(mw.sent) = 1
     /\ mw.sent[1].status = 403

\* A request with a subject that holds the permission was denied for want
\* of an object record.
C12_GrantedSubjectDenied ==
  /\ mw.by = "hasPermission"
  /\ config.keycloak
  /\ req.currentObject.type = "undefined"
  /\ req.currentUser \in Subjects
  /\ env.lookup = "ok"
  /\ req.permission.value \in env.grants
  /\ mw.nexts = 0

\* C13: with enforcement on and a non-public object attached, hasPermission
\* calls next iff the identity is a bearer with a non-empty subject whose
\* grants hold the permission; without such an identity it denies and
\* looks no grants up.
C13_PrivateObjectNeedsGrant ==
  (/\ mw.by = "hasPermission"
   /\ config.keycloak
   /\ req.currentObject.type = "object"
   /\ ~req.currentObject.public.value)
  => /\ mw.nexts = 1 <=> /\ req.currentUser \in Subjects
                         /\ env.lookup = "ok"
                         /\ req.permission.value \in env.grants
     /\ mw.nexts = 0 <=> (Len(mw.sent) = 1 /\ mw.sent[1].status = 403)
     /\ req.currentUser \notin Subjects => mw.lookups = 0 /\ mw.nexts = 0

\* A subject was let through to a non-public object after one lookup.
C13_SubjectWithGrantPasses ==
  /\ mw.by = "hasPermission"
  /\ config.keycloak
  /\ req.currentObject.type = "object"
  /\ ~req.currentObject.public.value
  /\ mw.nexts = 1
  /\ mw.lookups = 1

\* C14: every denial of hasPermission sends the same response, status 403
\* with one fixed detail, whatever the reason of the denial.
C14_DenialsIndistinguishable ==
  (mw.by = "hasPermission" /\ mw.nexts = 0)
  => mw.sent = <<[status |-> 403,
                  detail |-> "User lacks permission to complete this action"]>>

\* Requests were denied for each of the reasons; this one for a lookup
\* that threw.
C14_DeniedForLookupError ==
  /\ mw.by = "hasPermission"
  /\ mw.nexts = 0
  /\ mw.err = "readPermissions rejected"
  /\ mw.lookups = 1

\* C15: with enforcement off hasPermission calls next, sends nothing and
\* looks no grants up, whatever the request.
C15_DisabledAllowsAll ==
  (mw.by = "hasPermission" /\ ~config.keycloak)
  => /\ mw.nexts = 1
     /\ mw.sent = <<>>
     /\ mw.lookups = 0

\* With enforcement off a request without object record and identity passed.
C15_AnonymousPassesUnenforced ==
  /\ mw.by = "hasPermission"
  /\ ~config.keycloak
  /\ req.currentObject.type = "undefined"
  /\ req.currentUser.type = "undefined"
  /\ mw.nexts = 1


\* C16: a call given a transaction neither commits nor rolls back, and
\* throws what failed; a call given none commits once, when every query it
\* and its helpers issued has finished, or rolls back once.
C16_OwnerCommitsOnce ==
  last.op # "none"
  => /\ last.threw # "none" => ~last.ok
     /\ IF last.etrx
        THEN last.commits = 0 /\ last.rollbacks = 0
        ELSE IF last.ok
        THEN last.commits = 1 /\ last.rollbacks = 0 /\ last.rejected = 0
        ELSE last.commits = 0 /\ last.rollbacks = 1


\* The association rows of version w, as a bag.
RowsOf(w) ==
  [j \in {x \in DOMAIN AssociationRows : x.versionId = w} |-> AssociationRows[j]]

\* The matcher m of dissociateTags selects the pair p.
Selects(m, p) == m.key = p.key /\ (m.value = "" \/ m.value = p.value)

\* C17: a dissociateTags, replaceTags or associateMetadata call for version
\* v leaves the association rows of every other version as they were.
C17_OtherVersionsUntouched ==
  [][\A v \in Versions :
       (/\ last'.op \in {"dissociateTags", "replaceTags", "associateMetadata"}
        /\ last'.versionId = v)
       => \A w \in Versions \ {v} : RowsOf(w)' = RowsOf(w)]_vars

\* A pair was dissociated from one version while the other version stays
\* joined to its record.
C17_SharedPairKeptForOther ==
  /\ last.op = "dissociateTags"
  /\ last.ok
  /\ last.del = 1
  /\ \E r \in AttributeRecords, w \in Versions :
       /\ w # last.versionId
       /\ last.arg = <<KV(r)>>
       /\ RowsTo(w, r) = 1
       /\ RowsTo(last.versionId, r) = 0

\* C18: after dissociateTags(v, matchers) resolves, v has lost every pair
\* whose key a key-only matcher names and every pair a key-and-value
\* matcher names exactly, and no other pair.
C18_MatchersRemoveSelected ==
  [][\A v \in Versions :
       (/\ last'.op = "dissociateTags"
        /\ last'.ok
        /\ last'.versionId = v)
       => PairsOf(v)' = {p \in PairsOf(v) :
                           \A i \in DOMAIN last'.arg : ~Selects(last'.arg[i], p)}]_vars

C20_PruneSparesAssociated ==
  [][(pruning.pc = "scanned" /\ pruning'.pc = "idle")
     => \A r \in AttributeRecords :
          (\E v \in Versions : RowsTo(v, r) > 0) => r \in AttributeRecords']_vars


\* C27: when dissociateTags resolves, alone or for replaceTags, every
\* join-row delete it issued had completed before the orphan scan ran and
\* none was pending when the transaction was committed.
C27_DeletesBeforePrune ==
  (last.op \in {"dissociateTags", "replaceTags"} /\ last.ok)
  => last.late = 0 /\ last.rejected = 0


\* C28: every association row refers to a record of the store, and the
\* records that createMetadata inserted in an associateMetadata call exist
\* when the call inserts its association rows: the insert is not refused
\* for a row that refers to no record.
C28_RowsReferToRecords ==
  /\ \A j \in DOMAIN AssociationRows :
       \E r \in AttributeRecords : r.id = AttributeId(j)
  /\ last.op = "associateMetadata" => last.threw # "foreignKey"


\* C22: after associateMetadata(v, M) resolves, no two pairs joined to v
\* have the same key and different values, whatever list M was given.
C22_OneValuePerKey ==
  (last.op = "associateMetadata" /\ last.ok)
  => \A p, q \in PairsOf(last.versionId) : p.key = q.key => p.value = q.value


\* C23: a replaceTags or associateMetadata call that resolves returns the
\* attribute records joined to the version after the call, each once, also
\* when it inserted no association row.
C23_ReturnsAssociatedRecords ==
  (last.op \in {"replaceTags", "associateMetadata"} /\ last.ok)
  => /\ Range(last.ret) = {r \in AttributeRecords : RowsTo(last.versionId, r) > 0}
     /\ Len(last.ret) = Cardinality(Range(last.ret))


\* C24: dissociateTags(v, matchers) resolves to the number of association
\* rows it deleted: the number of rows the table has lost by the call.
C24_ResolvesToDeletedCount ==
  [][(last'.op = "dissociateTags" /\ last'.ok)
     => last'.count = BagCardinality(AssociationRows) - BagCardinality(AssociationRows')]_vars


\* C25: when the record read or the head lookup of currentObject fails,
\* currentObject calls next once, without an error, and leaves
\* req.currentObject unset, and hasPermission, with enforcement on, then
\* sends 403; when both succeed the record read is attached and is still
\* the attached object after hasPermission.
C25_LookupFailureSwallowed ==
  (mw.by \in {"currentObject", "hasPermission"} /\ Truthy(req.objId))
  => /\ mw.by = "currentObject" => mw.nexts = 1 /\ mw.passed = <<>> /\ mw.sent = <<>>
     /\ IF env.record.type = "error" \/ env.head = "throws"
        THEN /\ req.currentObject = JsUndefined
             /\ (mw.by = "hasPermission" /\ config.keycloak)
                => mw.nexts = 0 /\ Len(mw.sent) = 1 /\ mw.sent[1].status = 403
        ELSE req.currentObject = env.record

\* A read of a public object was denied because the head lookup failed.
C25_PublicReadDeniedAfterHeadFailure ==
  /\ mw.by = "hasPermission"
  /\ config.keycloak
  /\ Truthy(req.objId)
  /\ env.record.type = "object"
  /\ env.record.public.value
  /\ env.head = "throws"
  /\ req.permission.value = Permissions.READ
  /\ mw.nexts = 0


\* C30: checkAppMode and the middleware of hasPermission either call next
\* once and send nothing, or send one error response (501, resp. 403) and
\* do not call next.
C30_NextOrResponse ==
  mw.by \in {"checkAppMode", "hasPermission"}
  => \/ mw.nexts = 1 /\ mw.sent = <<>>
     \/ /\ mw.nexts = 0
        /\ Len(mw.sent) = 1
        /\ mw.sent[1].status = IF mw.by = "checkAppMode" THEN 501 ELSE 403

\* A request without identity was answered with a response and not passed on.
C30_AnsweredNotPassedOn ==
  /\ mw.by = "hasPermission"
  /\ mw.err = "Missing user identification"
  /\ mw.nexts = 0
  /\ Len(mw.sent) = 1


C21_LastWriterWins ==
  (/\ \A t \in Trxs : /\ trxs[t].pc = "committed"
                      /\ trxs[t].op = "replaceTags"
                      /\ trxs[t].tags # <<>>
                      /\ trxs[t].late = 0
                      /\ trxs[t].rejected = 0
   /\ trxs[1].versionId = trxs[2].versionId)
  => PairsOf(trxs[1].versionId) \in {Range(trxs[1].tags), Range(trxs[2].tags)}


====
